---- MODULE Spec2Model ----
(***************************************************************************)
(* Model of gql_ug/GraphTypeDefinitions: the filter-input synthesis        *)
(* decorator createInputs (utils.py) with its process-wide type cache      *)
(* inputTypeGQLMapper and the module namespace it registers types in, and  *)
(* the request-time resolvers and mutations that delegate to the loaders.  *)
(***************************************************************************)
EXTENDS Naturals, Sequences, FiniteSets, TLC

VARIABLES
    heap,                \* the type objects that exist, by identity (index)
    inputTypeGQLMapper,  \* utils.inputTypeGQLMapper: kind -> type
    this,                \* sys.modules[utils]: attribute name -> type
    history,             \* one record per completed createInputs call
    store,               \* the rows behind the loaders, per loader and id
    request              \* the operation that ran last: its arguments, the
                         \* loader calls it made and its result

typeVars == <<heap, inputTypeGQLMapper, this>>
vars == <<heap, inputTypeGQLMapper, this, history, store, request>>

\* Number of createInputs calls explored.
MaxCalls == 2

(***************************************************************************)
(* Values that can stand where Python expects a type.                      *)
(***************************************************************************)
\* a plain class that is not a heap-tracked input type (str, bool, float...)
Class(n) == [tag |-> "class", name |-> n, id |-> 0]
\* Annotated["n", strawberry.lazy(...)]
Lazy(n) == [tag |-> "annotated", name |-> n, id |-> 0]
\* a type object of the heap, identified by its index
Obj(i) == [tag |-> "obj", name |-> "", id |-> i]
\* a string forward reference, as in typing.List[andName]
Fwd(n) == [tag |-> "fwd", name |-> n, id |-> 0]

\* typing.Optional[t] and typing.Optional[typing.List[t]]
Optional(t) == [opt |-> TRUE, list |-> FALSE, of |-> t]
OptionalList(t) == [opt |-> TRUE, list |-> TRUE, of |-> t]

\* strawberry.field(name=op, description=..., default=None)
FieldDefault == "None"

\* t.__name__
TypeName(h, t) ==
    CASE t.tag = "obj" -> h[t.id].name
      [] t.tag = "annotated" -> "Annotated"
      [] OTHER -> t.name

\* right-biased dictionary merge: {**a, **b}
Merge(a, b) ==
    [k \in DOMAIN a \cup DOMAIN b |-> IF k \in DOMAIN b THEN b[k] ELSE a[k]]

\* d[k] = v on a dictionary
Put(d, k, v) == [x \in DOMAIN d \cup {k} |-> IF x = k THEN v ELSE d[x]]

\* a strawberry input type: its __name__, what built it, its annotations and
\* the default of each of its fields
InputType(n, made, ann) ==
    [name |-> n, made |-> made, annotations |-> ann,
     defaults |-> [k \in DOMAIN ann |-> FieldDefault]]

(***************************************************************************)
(* The filter types utils.py defines by hand.                              *)
(***************************************************************************)
CompareOps == {"_eq", "_le", "_lt", "_ge", "_gt"}
StringOps == {"_like", "_ilike", "_startswith", "_endswith"}

StrFilter ==
    InputType("StrFilter", "static",
              [op \in CompareOps \cup StringOps |-> Optional(Class("str"))])

DatetimeFilter ==
    InputType("DatetimeFilter", "static",
              [op \in CompareOps |-> Optional(Class("datetime"))])

IntFilter ==
    InputType("IntFilter", "static",
              [op \in CompareOps \cup {"_in"} |->
                  IF op = "_in" THEN OptionalList(Class("int"))
                                ELSE Optional(Class("int"))])

BoolFilter ==
    InputType("BoolFilter", "static", [op \in {"_eq"} |-> Optional(Class("bool"))])

UuidFilter ==
    InputType("UuidFilter", "static",
              [op \in {"_eq", "_in"} |->
                  IF op = "_in" THEN OptionalList(Class("UUID"))
                                ELSE Optional(Class("UUID"))])

\* the heap once utils.py has been imported, in definition order
StaticTypes == <<StrFilter, DatetimeFilter, IntFilter, BoolFilter, UuidFilter>>

IdOf(h, n) == CHOOSE i \in 1..Len(h) : h[i].name = n

\* inputTypeGQLMapper after lines 175-179
InitialMapper ==
    LET h == StaticTypes IN
    [k \in {Class("UUID"), Class("int"), Class("str"), Class("datetime"), Class("bool")} |->
        CASE k.name = "UUID" -> Obj(IdOf(h, "UuidFilter"))
          [] k.name = "int" -> Obj(IdOf(h, "IntFilter"))
          [] k.name = "str" -> Obj(IdOf(h, "StrFilter"))
          [] k.name = "datetime" -> Obj(IdOf(h, "DatetimeFilter"))
          [] k.name = "bool" -> Obj(IdOf(h, "BoolFilter"))]

\* the type attributes of the utils module after import
InitialModule ==
    [n \in {StaticTypes[i].name : i \in 1..Len(StaticTypes)} |-> Obj(IdOf(StaticTypes, n))]

(***************************************************************************)
(* createInputs                                                            *)
(***************************************************************************)
\* GeneratedOps with one comparison forgotten
GeneratedOps_noGt == {"_eq", "_le", "_lt", "_ge"}

\* the operators a generated operator type exposes (lines 41 and 43)
GeneratedOps == {"_eq", "_le", "_lt", "_ge", "_gt"}

\* createCustomInput falling back to the str filter (its default baseType)
\* for a kind without a mapping
createCustomInput_defaultStr(h, mapper, field, name, baseType) ==
    IF baseType \in DOMAIN mapper
    THEN [heap |-> h, result |-> mapper[baseType]]
    ELSE IF TypeName(h, baseType) = "Annotated"
    THEN [heap |-> h, result |-> baseType]
    ELSE [heap |-> h, result |-> mapper[Class("str")]]

\* createCustomInput without the test for Annotated
createCustomInput_wrapLazy(h, mapper, field, name, baseType) ==
    IF baseType \in DOMAIN mapper
    THEN [heap |-> h, result |-> mapper[baseType]]
    ELSE [heap |-> Append(h, InputType(name, "custom",
                                       [op \in {"_eq", "_le", "_lt", "_ge", "_gt"} |->
                                           Optional(baseType)])),
          result |-> Obj(Len(h) + 1)]

\* createCustomInput reusing a cached type for plain classes only
createCustomInput_plainClassesOnly(h, mapper, field, name, baseType) ==
    IF baseType.tag = "class" /\ baseType \in DOMAIN mapper
    THEN [heap |-> h, result |-> mapper[baseType]]
    ELSE IF TypeName(h, baseType) = "Annotated"
    THEN [heap |-> h, result |-> baseType]
    ELSE [heap |-> Append(h, InputType(name, "custom",
                                       [op \in {"_eq", "_le", "_lt", "_ge", "_gt"} |->
                                           Optional(baseType)])),
          result |-> Obj(Len(h) + 1)]

\* createCustomInput(field, name, baseType): the heap afterwards and the
\* type returned
createCustomInput(h, mapper, field, name, baseType) ==
    IF baseType \in DOMAIN mapper
    THEN [heap |-> h, result |-> mapper[baseType]]
    ELSE IF TypeName(h, baseType) = "Annotated"
    THEN [heap |-> h, result |-> baseType]
    ELSE [heap |-> Append(h, InputType(name, "custom",
                                       [op \in GeneratedOps |-> Optional(baseType)])),
          result |-> Obj(Len(h) + 1)]

\* inputTypes (lines 52-55): createCustomInput over the annotations, in order
RECURSIVE customInputs(_, _, _, _, _)
customInputs(h, mapper, clsname, ann, i) ==
    IF i > Len(ann)
    THEN [heap |-> h, inputTypes |-> <<>>]
    ELSE LET one == createCustomInput(h, mapper, ann[i].field,
                                      clsname \o "_" \o ann[i].field, ann[i].type)
             rest == customInputs(one.heap, mapper, clsname, ann, i + 1)
         IN [heap |-> rest.heap, inputTypes |-> <<one.result>> \o rest.inputTypes]

\* inputTypesDict (lines 58-61)
inputTypesDict(ann, inputTypes) ==
    [f \in {ann[i].field : i \in 1..Len(ann)} |->
        Optional(inputTypes[CHOOSE i \in 1..Len(ann) : ann[i].field = f])]

\* createOr (lines 67-78)
createOr(orName, andName, fieldTypes) ==
    InputType(orName, "or",
              Merge([k \in {"_and"} |-> OptionalList(Fwd(andName))], fieldTypes))

\* createAnd carrying both combinators, as createWhereOp does
createAnd_bothCombinators(orName, andName, fieldTypes) ==
    InputType(andName, "and",
              Merge([k \in {"_or", "_and"} |->
                        IF k = "_or" THEN OptionalList(Fwd(orName))
                                     ELSE OptionalList(Fwd(andName))],
                    fieldTypes))

\* createAnd (lines 84-95)
createAnd(orName, andName, fieldTypes) ==
    InputType(andName, "and",
              Merge([k \in {"_or"} |-> OptionalList(Fwd(orName))], fieldTypes))

\* createWhereOp giving the combinators only to a class that declares fields
createWhereOp_needsFields(whereName, orOp, andOp, fieldTypes) ==
    InputType(whereName, "where",
              IF DOMAIN fieldTypes = {} THEN fieldTypes
              ELSE Merge([k \in {"_or", "_and"} |->
                            IF k = "_or" THEN OptionalList(orOp) ELSE OptionalList(andOp)],
                         fieldTypes))

\* createWhereOp (lines 101-114)
createWhereOp(whereName, orOp, andOp, fieldTypes) ==
    InputType(whereName, "where",
              Merge([k \in {"_or", "_and"} |->
                        IF k = "_or" THEN OptionalList(orOp) ELSE OptionalList(andOp)],
                    fieldTypes))

\* setattr(this, r.__name__, r) for r in result (lines 121-124)
RECURSIVE register(_, _, _, _)
register(h, module, result, i) ==
    IF i > Len(result) THEN module
    ELSE register(h, Put(module, TypeName(h, result[i]), result[i]), result, i + 1)

\* createInputs without its last assignment
registerWhere_skipped(mapper, whereOp) == mapper

\* inputTypeGQLMapper[whereOp] = whereOp (line 129)
registerWhere(mapper, whereOp) == Put(mapper, whereOp, whereOp)

\* createInputs(cls) for a class named clsname with annotations ann:
\* the state afterwards and what the call did
createInputs(h, mapper, module, clsname, ann) ==
    LET whereName == clsname
        orName == clsname \o "_or"
        andName == clsname \o "_and"
        ci == customInputs(h, mapper, clsname, ann, 1)
        fieldTypes == inputTypesDict(ann, ci.inputTypes)
        h1 == Append(ci.heap, createOr(orName, andName, fieldTypes))
        orOp == Obj(Len(h1))
        h2 == Append(h1, createAnd(orName, andName, fieldTypes))
        andOp == Obj(Len(h2))
        h3 == Append(h2, createWhereOp(whereName, orOp, andOp, fieldTypes))
        whereOp == Obj(Len(h3))
        result == <<whereOp, andOp, orOp>> \o ci.inputTypes
    IN [heap |-> h3,
        mapper |-> registerWhere(mapper, whereOp),
        module |-> register(h3, module, result, 1),
        call |-> [clsname |-> clsname, ann |-> ann, outcome |-> "returned",
                  returned |-> whereOp, whereOp |-> whereOp, andOp |-> andOp,
                  orOp |-> orOp, inputTypes |-> ci.inputTypes,
                  created |-> (Len(h) + 1)..Len(h3),
                  cachedBefore |-> DOMAIN mapper]]

(***************************************************************************)
(* Request-time values: None, scalars, ids, lists, instances of input      *)
(* types and plain dictionaries.                                           *)
(***************************************************************************)
NoneV == [k |-> "none"]
StrV(s) == [k |-> "str", s |-> s]
BoolV(b) == [k |-> "bool", b |-> b]
IdV(n) == [k |-> "id", n |-> n]
ListV(l) == [k |-> "list", elems |-> l]
Inst(t, attrs) == [k |-> "inst", cls |-> t, attrs |-> attrs]
DictV(items) == [k |-> "dict", items |-> items]

\* strawberry.asdict: instances become dictionaries, recursively through
\* lists; anything else is copied
RECURSIVE asdict(_)
asdict(v) ==
    CASE v.k = "inst" -> DictV([f \in DOMAIN v.attrs |-> asdict(v.attrs[f])])
      [] v.k = "list" -> ListV([i \in 1..Len(v.elems) |-> asdict(v.elems[i])])
      [] OTHER -> v

\* an instance of input type t: the given attributes, every other field at
\* its default
NewInstance(h, t, given) ==
    Inst(t, [f \in DOMAIN h[t.id].annotations |->
                IF f \in DOMAIN given THEN given[f] ELSE NoneV])

\* a value for the scalar filter type of field f of t: one comparison
FilterValue(h, t, f, v) ==
    [g \in {f} |-> NewInstance(h, h[t.id].annotations[f].of, [op \in {"_eq"} |-> v])]

\* the where arguments a client sends for WhereType w: none, the empty
\* filter, a name compared, empty combinators, one alternative on valid
WhereValues(h, w) ==
    LET orOp == h[w.id].annotations["_or"].of IN
    {NoneV,
     NewInstance(h, w, <<>>),
     NewInstance(h, w, FilterValue(h, w, "name", StrV("CS"))),
     NewInstance(h, w, [g \in {"_and", "_or"} |-> ListV(<<>>)]),
     NewInstance(h, w, [g \in {"_or"} |->
         ListV(<<NewInstance(h, orOp, FilterValue(h, orOp, "valid", BoolV(TRUE)))>>)])}

(***************************************************************************)
(* The loaders (info.context["all"]): one table of rows per entity kind.   *)
(***************************************************************************)
RowIds == {1, 2}
Loaders == {"groups", "grouptypes", "users", "memberships", "rolecategories"}

Row(id, name, valid) ==
    [c \in {"id", "name", "valid"} |->
        CASE c = "id" -> IdV(id) [] c = "name" -> StrV(name) [] OTHER -> BoolV(valid)]

GroupRow(id, name, valid, master) ==
    [c \in {"id", "name", "valid", "mastergroup_id"} |->
        CASE c = "id" -> IdV(id) [] c = "name" -> StrV(name)
          [] c = "valid" -> BoolV(valid) [] OTHER -> master]

InitialStore ==
    [l \in Loaders |->
        IF l = "groups" THEN [i \in {1} |-> GroupRow(1, "CS", TRUE, NoneV)]
                        ELSE [i \in {1} |-> Row(1, "CS", TRUE)]]

\* loader.load(id)
LoaderLoad(table, id) ==
    IF id.k = "id" /\ id.n \in DOMAIN table THEN table[id.n] ELSE NoneV

\* loader.update(record): not-found, or the row with the record's attributes
\* that are set written over its columns
LoaderUpdate(table, rec) ==
    IF rec["id"].k = "id" /\ rec["id"].n \in DOMAIN table
    THEN LET old == table[rec["id"].n]
             new == [c \in DOMAIN old |->
                        IF c \in DOMAIN rec /\ rec[c] # NoneV THEN rec[c] ELSE old[c]]
         IN [table |-> [table EXCEPT ![rec["id"].n] = new], row |-> new]
    ELSE [table |-> table, row |-> NoneV]

\* loader.insert(record): the new row, under the record's id or a free one;
\* no row when that id is taken or none is free
LoaderInsert(table, rec, blank) ==
    LET free == RowIds \ DOMAIN table
        id == IF rec["id"] # NoneV THEN rec["id"].n
              ELSE IF free # {} THEN CHOOSE i \in free : \A j \in free : i <= j
              ELSE 0
    IN IF id \in free
       THEN LET new == [c \in DOMAIN blank |->
                           IF c = "id" THEN IdV(id)
                           ELSE IF c \in DOMAIN rec /\ rec[c] # NoneV THEN rec[c]
                           ELSE blank[c]]
            IN [table |-> Put(table, id, new), row |-> new]
       ELSE [table |-> table, row |-> NoneV]

\* the rows of a table in id order
RECURSIVE RowsOf(_, _)
RowsOf(table, ids) ==
    IF ids = {} THEN <<>>
    ELSE LET i == CHOOSE x \in ids : \A y \in ids : x <= y
         IN <<table[i]>> \o RowsOf(table, ids \ {i})

\* xs[skip+1 .. skip+limit]
Slice(xs, skip, limit) ==
    [i \in 1..(IF Len(xs) > skip
               THEN (IF Len(xs) - skip < limit THEN Len(xs) - skip ELSE limit)
               ELSE 0) |-> xs[skip + i]]

\* loader.page(skip, limit, where): the results the loader may give; which
\* rows a filter selects is the query builder's business
LoaderPage(table, skip, limit, where) ==
    {Slice(RowsOf(table, ids), skip, limit) :
        ids \in IF where = NoneV THEN {DOMAIN table} ELSE {DOMAIN table, {}}}

\* loader.filter_by(**constraints): the rows equal to the constraints in
\* every constrained column, in id order
LoaderFilterBy(table, constraints) ==
    RowsOf(table, {i \in DOMAIN table :
                      \A c \in DOMAIN constraints : table[i][c] = constraints[c]})

LoaderCall(loader, method, args) == [loader |-> loader, method |-> method, args |-> args]

Request(op, args, calls, result) ==
    [op |-> op, args |-> args, calls |-> calls, result |-> result]

(***************************************************************************)
(* Resolvers and mutations.  Each takes the process state p (the type      *)
(* objects, inputTypeGQLMapper, the utils module and the loaders' rows)    *)
(* and gives the process state afterwards, the loader calls made and the   *)
(* value returned.                                                         *)
(***************************************************************************)
\* the text form of id n
UuidText(n) == [k |-> "text", n |-> n]

\* resolve_reference handing a string id to the loader as it came
resolve_reference_noConversion(p, cls, loader, id) ==
    IF id = NoneV
    THEN [process |-> p, calls |-> <<>>, result |-> NoneV]
    ELSE LET row == LoaderLoad(p.store[loader], id)
         IN [process |-> p,
             calls |-> <<LoaderCall(loader, "load", <<id>>)>>,
             result |-> IF row # NoneV
                        THEN [k |-> "entity", row |-> row, definition |-> cls]
                        ELSE NoneV]

\* BaseGQLModel.resolve_reference(info, id) on the class served by loader
resolve_reference(p, cls, loader, id) ==
    IF id = NoneV
    THEN [process |-> p, calls |-> <<>>, result |-> NoneV]
    ELSE LET key == IF id.k = "text" THEN IdV(id.n) ELSE id
             row == LoaderLoad(p.store[loader], key)
         IN [process |-> p,
             calls |-> <<LoaderCall(loader, "load", <<key>>)>>,
             result |-> IF row # NoneV
                        THEN [k |-> "entity", row |-> row, definition |-> cls]
                        ELSE NoneV]

\* a page resolver that caches the class of the filter it was given
page_caching(p, loader, skip, limit, where, rows) ==
    LET wheredict == IF where = NoneV THEN NoneV ELSE asdict(where) IN
    [process |-> IF where = NoneV THEN p
                 ELSE [p EXCEPT !.mapper = Put(p.mapper, Class("dict"), where.cls)],
     calls |-> <<LoaderCall(loader, "page", <<skip, limit, wheredict>>)>>,
     result |-> rows]

\* a page resolver passing the attributes of the filter as they are, nested
\* instances not converted
page_shallowDict(p, loader, skip, limit, where, rows) ==
    LET wheredict == IF where = NoneV THEN NoneV ELSE DictV(where.attrs) IN
    [process |-> p,
     calls |-> <<LoaderCall(loader, "page", <<skip, limit, wheredict>>)>>,
     result |-> rows]

\* group_page / group_type_page / user_page; rows is what loader.page gave
page(p, loader, skip, limit, where, rows) ==
    LET wheredict == IF where = NoneV THEN NoneV ELSE asdict(where) IN
    [process |-> p,
     calls |-> <<LoaderCall(loader, "page", <<skip, limit, wheredict>>)>>,
     result |-> rows]

Envelope(id, msg) == [id |-> id, msg |-> msg]

\* an update mutation that reads updatedrow.id before the test for None, as
\* the insert mutations do
update_idFromRow(p, loader, rec) ==
    LET u == LoaderUpdate(p.store[loader], rec) IN
    [process |-> [p EXCEPT !.store[loader] = u.table],
     calls |-> <<LoaderCall(loader, "update", <<rec>>)>>,
     result |-> IF u.row = NoneV THEN [raised |-> "AttributeError"]
                                 ELSE Envelope(u.row["id"], "ok")]

\* group_update, group_type_update, user_update, membership_update
update(p, loader, rec) ==
    LET u == LoaderUpdate(p.store[loader], rec) IN
    [process |-> [p EXCEPT !.store[loader] = u.table],
     calls |-> <<LoaderCall(loader, "update", <<rec>>)>>,
     result |-> IF u.row = NoneV THEN Envelope(rec["id"], "fail")
                                 ELSE Envelope(rec["id"], "ok")]

\* role_category_update
role_category_update(p, rec) ==
    LET u == LoaderUpdate(p.store["rolecategories"], rec) IN
    [process |-> [p EXCEPT !.store["rolecategories"] = u.table],
     calls |-> <<LoaderCall("rolecategories", "update", <<rec>>)>>,
     result |-> IF u.row = NoneV THEN Envelope(rec["id"], "fail")
                                 ELSE Envelope(u.row["id"], "ok")]

\* group_insert, group_type_insert: updatedrow.id is read before the test
\* for None
insert(p, loader, rec, blank) ==
    LET u == LoaderInsert(p.store[loader], rec, blank) IN
    [process |-> [p EXCEPT !.store[loader] = u.table],
     calls |-> <<LoaderCall(loader, "insert", <<rec>>)>>,
     result |-> IF u.row = NoneV THEN [raised |-> "AttributeError"]
                                 ELSE Envelope(u.row["id"], "ok")]

\* group_update_master without the test of masterrow
group_update_master_noMasterCheck(p, master_id, group) ==
    LET updatedrow == LoaderLoad(p.store["groups"], group["id"])
        loadGroup == LoaderCall("groups", "load", <<group["id"]>>)
        loadMaster == LoaderCall("groups", "load", <<master_id>>)
    IN IF updatedrow = NoneV
       THEN [process |-> p, calls |-> <<loadGroup>>,
             result |-> Envelope(group["id"], "fail")]
       ELSE LET changed == Put(updatedrow, "master_id", master_id)
                u == LoaderUpdate(p.store["groups"], changed)
            IN [process |-> [p EXCEPT !.store["groups"] = u.table],
                calls |-> <<loadGroup, loadMaster,
                            LoaderCall("groups", "update", <<changed>>)>>,
                result |-> IF u.row = NoneV THEN Envelope(group["id"], "fail")
                                            ELSE Envelope(group["id"], "ok")]

\* group_update_master(master_id, group)
group_update_master(p, master_id, group) ==
    LET updatedrow == LoaderLoad(p.store["groups"], group["id"])
        masterrow == LoaderLoad(p.store["groups"], master_id)
        loadGroup == LoaderCall("groups", "load", <<group["id"]>>)
        loadMaster == LoaderCall("groups", "load", <<master_id>>)
    IN IF updatedrow = NoneV
       THEN [process |-> p, calls |-> <<loadGroup>>,
             result |-> Envelope(group["id"], "fail")]
       ELSE IF masterrow = NoneV
       THEN [process |-> p, calls |-> <<loadGroup, loadMaster>>,
             result |-> Envelope(group["id"], "fail")]
       ELSE LET changed == Put(updatedrow, "master_id", master_id)
                u == LoaderUpdate(p.store["groups"], changed)
            IN [process |-> [p EXCEPT !.store["groups"] = u.table],
                calls |-> <<loadGroup, loadMaster,
                            LoaderCall("groups", "update", <<changed>>)>>,
                result |-> IF u.row = NoneV THEN Envelope(group["id"], "fail")
                                            ELSE Envelope(group["id"], "ok")]

\* s without its first character
Rest(s) == SubSeq(s, 2, Len(s))

\* SQL: text LIKE pattern, where % stands for any run of characters and _
\* for any one character
RECURSIVE Like(_, _)
Like(text, pattern) ==
    IF pattern = "" THEN text = ""
    ELSE IF SubSeq(pattern, 1, 1) = "%"
    THEN Like(text, Rest(pattern)) \/ (text # "" /\ Like(Rest(text), pattern))
    ELSE /\ text # ""
         /\ SubSeq(pattern, 1, 1) \in {"_", SubSeq(text, 1, 1)}
         /\ Like(Rest(text), Rest(pattern))

\* the column expression a by_letters statement compares, on a row:
\* model.name for groups, model.name + " " + model.surname for users
ColumnText(row, column) ==
    IF column = "name" THEN row["name"].s
    ELSE row["name"].s \o " " \o row["surname"].s

\* loader.execute_select(stmt): the rows the statement selects, in id order
execute_select(table, stmt) ==
    RowsOf(table, {i \in DOMAIN table :
                      /\ Like(ColumnText(table[i], stmt.where.column), stmt.where.like)
                      /\ \A c \in DOMAIN stmt.filter_by : table[i][c] = stmt.filter_by[c]})

\* by_letters answering nothing for three letters too
by_letters_upToThree(p, loader, column, validity, letters) ==
    IF Len(letters) <= 3
    THEN [process |-> p, calls |-> <<>>, result |-> <<>>]
    ELSE LET stmt == [where |-> [column |-> column, like |-> "%" \o letters \o "%"],
                      filter_by |-> IF validity # NoneV
                                    THEN [c \in {"valid"} |-> BoolV(TRUE)]
                                    ELSE <<>>]
         IN [process |-> p,
             calls |-> <<LoaderCall(loader, "getSelectStatement", <<>>),
                         LoaderCall(loader, "getModel", <<>>),
                         LoaderCall(loader, "execute_select", <<stmt>>)>>,
             result |-> execute_select(p.store[loader], stmt)]

\* group_by_letters (column name) and user_by_letters (column name and
\* surname)
by_letters(p, loader, column, validity, letters) ==
    IF Len(letters) < 3
    THEN [process |-> p, calls |-> <<>>, result |-> <<>>]
    ELSE LET stmt == [where |-> [column |-> column, like |-> "%" \o letters \o "%"],
                      filter_by |-> IF validity # NoneV
                                    THEN [c \in {"valid"} |-> BoolV(TRUE)]
                                    ELSE <<>>]
         IN [process |-> p,
             calls |-> <<LoaderCall(loader, "getSelectStatement", <<>>),
                         LoaderCall(loader, "getModel", <<>>),
                         LoaderCall(loader, "execute_select", <<stmt>>)>>,
             result |-> execute_select(p.store[loader], stmt)]

\* GroupGQLModel.resolve_reference(info, row.group_id) for each of rows, in
\* order: the loader calls made and the items resolved
RECURSIVE resolveGroups(_, _, _)
resolveGroups(p, rows, i) ==
    IF i > Len(rows) THEN [calls |-> <<>>, items |-> <<>>]
    ELSE LET one == resolve_reference(p, "GroupGQLModel", "groups", rows[i]["group_id"])
             rest == resolveGroups(p, rows, i + 1)
         IN [calls |-> one.calls \o rest.calls, items |-> <<one.result>> \o rest.items]

\* the items whose grouptype_id is the one asked for, kept in order
RECURSIVE ofGroupType(_, _, _)
ofGroupType(items, grouptype_id, i) ==
    IF i > Len(items) THEN <<>>
    ELSE (IF items[i].row["grouptype_id"] = grouptype_id THEN <<items[i]>> ELSE <<>>)
         \o ofGroupType(items, grouptype_id, i + 1)

\* UserGQLModel.member_of(grouptype_id) on user self: item.grouptype_id is
\* read of every resolved item, None included
member_of(p, self, grouptype_id) ==
    LET rows == LoaderFilterBy(p.store["memberships"], [c \in {"user_id"} |-> self["id"]])
        r == resolveGroups(p, rows, 1)
        calls == <<LoaderCall("memberships", "filter_by", <<[c \in {"user_id"} |-> self["id"]]>>)>>
                 \o r.calls
    IN [process |-> p,
        calls |-> calls,
        result |-> IF \E i \in 1..Len(r.items) : r.items[i] = NoneV
                   THEN [k |-> "raised", error |-> "AttributeError"]
                   ELSE ListV(ofGroupType(r.items, grouptype_id, 1))]

(***************************************************************************)
(* The classes the decorator is applied to.                                *)
(***************************************************************************)
CallIds == 1..Len(history)

EntityNames == {"Group", "Group_and"}
\* the field names a class may declare, in declaration order
FieldNames == <<"name", "and">>

\* kinds a field can declare: cached scalars, a class with no filter type,
\* a lazy reference, and a WhereType returned by an earlier call
Kinds ==
    {Class("str"), Class("bool"), Class("float"), Lazy("UserInputWhereFilter")}
    \cup {history[i].returned : i \in 1..Len(history)}

\* cls.__annotations__: any subset of FieldNames, each with any kind
AnnotationsOf(kinds) ==
    {<<>>}
    \cup {<<[field |-> FieldNames[i], type |-> k]>> : i \in 1..Len(FieldNames), k \in kinds}
    \cup {<<[field |-> FieldNames[p[1]], type |-> k[1]],
             [field |-> FieldNames[p[2]], type |-> k[2]]>> :
            p \in {q \in (1..Len(FieldNames)) \X (1..Len(FieldNames)) : q[1] < q[2]},
            k \in kinds \X kinds}

Init ==
    /\ heap = StaticTypes
    /\ inputTypeGQLMapper = InitialMapper
    /\ this = InitialModule
    /\ history = <<>>
    /\ store = InitialStore
    /\ request = Request("import", <<>>, <<>>, NoneV)

\* the decorator applied to one more class at import time
CreateInputs ==
    /\ Len(history) < MaxCalls
    /\ \E clsname \in EntityNames, ann \in AnnotationsOf(Kinds) :
         LET r == createInputs(heap, inputTypeGQLMapper, this, clsname, ann) IN
         /\ heap' = r.heap
         /\ inputTypeGQLMapper' = r.mapper
         /\ this' = r.module
         /\ history' = Append(history, r.call)
         /\ request' = Request("createInputs", <<clsname>>, <<>>, r.call.returned)
         /\ UNCHANGED store

Next == CreateInputs

Spec == Init /\ [][Next]_vars

(***************************************************************************)
(* Serving requests once the package has been imported.                    *)
(***************************************************************************)
\* a class bound by "from .module import name" to what createInputs returned
Imported(n) == [tag |-> "import", name |-> n, id |-> 0]

Field(f, t) == [field |-> f, type |-> t]

\* the classes of the package that carry @createInputs
DecoratedClasses ==
    {[clsname |-> "MembershipInputWhereFilter",
      ann |-> <<Field("valid", Class("bool")),
                Field("group", Lazy("GroupInputWhereFilter")),
                Field("user", Lazy("UserInputWhereFilter"))>>],
     [clsname |-> "GroupInputWhereFilter",
      ann |-> <<Field("name", Class("str")), Field("valid", Class("bool")),
                Field("memberships", Imported("MembershipInputWhereFilter"))>>],
     [clsname |-> "GroupTypeInputWhereFilter",
      ann |-> <<Field("name", Class("str")), Field("valid", Class("bool"))>>],
     [clsname |-> "UserInputWhereFilter",
      ann |-> <<Field("name", Class("str")), Field("surname", Class("str")),
                Field("email", Class("str")), Field("fullname", Class("str")),
                Field("valid", Class("bool")),
                Field("memberships", Imported("MembershipInputWhereFilter"))>>]}

Decorated == {history[x].clsname : x \in CallIds}

\* the name clsname after its decorator ran: the WhereType createInputs returned
WhereTypeOf(clsname) ==
    history[CHOOSE x \in CallIds : history[x].clsname = clsname].returned

Needs(d) == {d.ann[i].type.name : i \in {j \in 1..Len(d.ann) : d.ann[j].type.tag = "import"}}

Bound(d) ==
    [i \in 1..Len(d.ann) |->
        IF d.ann[i].type.tag = "import"
        THEN Field(d.ann[i].field, WhereTypeOf(d.ann[i].type.name))
        ELSE d.ann[i]]

\* every decorated class has been defined: the schema can be built
Published == \A d \in DecoratedClasses : d.clsname \in Decorated

Process == [heap |-> heap, mapper |-> inputTypeGQLMapper, module |-> this, store |-> store]

\* a module of the package is imported: the decorator runs on its class
ImportModule ==
    \E d \in DecoratedClasses :
      /\ d.clsname \notin Decorated
      /\ Needs(d) \subseteq Decorated
      /\ LET r == createInputs(heap, inputTypeGQLMapper, this, d.clsname, Bound(d)) IN
         /\ heap' = r.heap
         /\ inputTypeGQLMapper' = r.mapper
         /\ this' = r.module
         /\ history' = Append(history, r.call)
         /\ request' = Request("createInputs", <<d.clsname>>, <<>>, r.call.returned)
         /\ UNCHANGED store

\* a request with arguments args is served by a resolver or mutation with
\* outcome r
Serve(op, args, r) ==
    /\ Published
    /\ heap' = r.process.heap
    /\ inputTypeGQLMapper' = r.process.mapper
    /\ this' = r.process.module
    /\ store' = r.process.store
    /\ request' = Request(op, args, r.calls, r.result)
    /\ UNCHANGED history

\* the skip and limit arguments tried: the defaults and a window inside
Windows == {<<0, 10>>, <<1, 1>>}

Page(op, loader, clsname) ==
    /\ Published
    /\ \E win \in Windows, where \in WhereValues(heap, WhereTypeOf(clsname)) :
         \E rows \in LoaderPage(store[loader], win[1], win[2], where) :
           Serve(op, [skip |-> win[1], limit |-> win[2], where |-> where],
                 page(Process, loader, win[1], win[2], where, rows))

GroupPage == Page("group_page", "groups", "GroupInputWhereFilter")
GroupTypePage == Page("group_type_page", "grouptypes", "GroupTypeInputWhereFilter")
UserPage == Page("user_page", "users", "UserInputWhereFilter")

IdArguments == {NoneV, UuidText(1)} \cup {IdV(n) : n \in RowIds}

ById(op, cls, loader) ==
    \E id \in IdArguments :
      Serve(op, [id |-> id], resolve_reference(Process, cls, loader, id))

GroupById == ById("group_by_id", "GroupGQLModel", "groups")
GroupTypeById == ById("group_type_by_id", "GroupTypeGQLModel", "grouptypes")
UserById == ById("user_by_id", "UserGQLModel", "users")
RoleCategoryById == ById("role_category_by_id", "RoleCategoryGQLModel", "rolecategories")

\* UserUpdateGQLModel, MembershipUpdateGQLModel, RoleCategoryUpdateGQLModel
\* values: an id, found or not, and the optional attribute c left unset
IdUpdates(c) ==
    {[a \in {"id", c} |-> IF a = "id" THEN IdV(n) ELSE NoneV] : n \in RowIds}
\* GroupTypeUpdateGQLModel values
NameUpdates ==
    {[c \in {"id", "name"} |-> IF c = "id" THEN IdV(n) ELSE v] :
        n \in RowIds, v \in {NoneV, StrV("Faculty")}}
\* GroupUpdateGQLModel values
GroupUpdates ==
    {[c \in {"id", "valid", "mastergroup_id"} |->
        CASE c = "id" -> IdV(n) [] c = "valid" -> v [] OTHER -> NoneV] :
        n \in RowIds, v \in {NoneV, BoolV(FALSE)}}
\* GroupInsertGQLModel, GroupTypeInsertGQLModel values
Inserts ==
    {[c \in {"id", "name"} |-> IF c = "id" THEN i ELSE StrV("FIT")] :
        i \in {NoneV, IdV(1)}}

GroupUpdate ==
    \E rec \in GroupUpdates :
      Serve("group_update", [group |-> rec], update(Process, "groups", rec))
GroupTypeUpdate ==
    \E rec \in NameUpdates :
      Serve("group_type_update", [group_type |-> rec], update(Process, "grouptypes", rec))
UserUpdate ==
    \E rec \in IdUpdates("valid") :
      Serve("user_update", [user |-> rec], update(Process, "users", rec))
MembershipUpdate ==
    \E rec \in IdUpdates("valid") :
      Serve("membership_update", [membership |-> rec], update(Process, "memberships", rec))
RoleCategoryUpdate ==
    \E rec \in IdUpdates("name") :
      Serve("role_category_update", [role_category |-> rec],
            role_category_update(Process, rec))

GroupInsert ==
    \E rec \in Inserts :
      Serve("group_insert", [group |-> rec],
            insert(Process, "groups", rec, GroupRow(0, "", TRUE, NoneV)))
GroupTypeInsert ==
    \E rec \in Inserts :
      Serve("group_type_insert", [group_type |-> rec],
            insert(Process, "grouptypes", rec, Row(0, "", TRUE)))

GroupUpdateMaster ==
    \E master_id \in {IdV(n) : n \in RowIds}, rec \in GroupUpdates :
      Serve("group_update_master", [master_id |-> master_id, group |-> rec],
            group_update_master(Process, master_id, rec))

NextServe ==
    \/ ImportModule
    \/ GroupPage \/ GroupTypePage \/ UserPage
    \/ GroupById \/ GroupTypeById \/ UserById \/ RoleCategoryById
    \/ GroupUpdate \/ GroupTypeUpdate \/ UserUpdate \/ MembershipUpdate
    \/ RoleCategoryUpdate
    \/ GroupInsert \/ GroupTypeInsert
    \/ GroupUpdateMaster

SpecServe == Init /\ [][NextServe]_vars

(***************************************************************************)
(* Searching groups and users by letters, over rows of either validity.    *)
(***************************************************************************)
UserRow(id, name, surname, valid) ==
    [c \in {"id", "name", "surname", "valid"} |->
        CASE c = "id" -> IdV(id) [] c = "name" -> StrV(name)
          [] c = "surname" -> StrV(surname) [] OTHER -> BoolV(valid)]

\* the rows searched: two groups and two users, each valid or not
LettersStores ==
    {[l \in Loaders |->
        CASE l = "groups" ->
               [i \in RowIds |-> IF i = 1 THEN GroupRow(1, "Faculty", v[1], NoneV)
                                          ELSE GroupRow(2, "FIT", v[2], IdV(1))]
          [] l = "users" ->
               [i \in RowIds |-> IF i = 1 THEN UserRow(1, "Ann", "Lee", v[3])
                                          ELSE UserRow(2, "Bob", "FITT", v[4])]
          [] OTHER -> InitialStore[l]] :
     v \in [1..4 -> BOOLEAN]}

\* the letters argument: the default, two letters, three letters with and
\* without a match, letters across name and surname, a wildcard
Letters == {"", "FI", "FIT", "n L", "ac_", "xyz"}
\* the validity argument
Validities == {NoneV, BoolV(TRUE), BoolV(FALSE)}

InitLetters ==
    /\ heap = StaticTypes
    /\ inputTypeGQLMapper = InitialMapper
    /\ this = InitialModule
    /\ history = <<>>
    /\ store \in LettersStores
    /\ request = Request("import", <<>>, <<>>, NoneV)

ByLetters(op, loader, column) ==
    \E validity \in Validities, letters \in Letters :
      Serve(op, [validity |-> validity, letters |-> letters],
            by_letters(Process, loader, column, validity, letters))

GroupByLetters == ByLetters("group_by_letters", "groups", "name")
UserByLetters == ByLetters("user_by_letters", "users", "fullname")

NextLetters == ImportModule \/ GroupByLetters \/ UserByLetters

SpecLetters == InitLetters /\ [][NextLetters]_vars

(***************************************************************************)
(* The groups a user is member of, over memberships and groups of any      *)
(* content.                                                                *)
(***************************************************************************)
MembershipRow(id, user_id, group_id) ==
    [c \in {"id", "user_id", "group_id", "valid"} |->
        CASE c = "id" -> IdV(id) [] c = "user_id" -> IdV(user_id)
          [] c = "group_id" -> IdV(group_id) [] OTHER -> BoolV(TRUE)]

\* a group row with the column grouptype_id
TypedGroupRow(id, grouptype_id) ==
    Put(GroupRow(id, "CS", TRUE, NoneV), "grouptype_id", IdV(grouptype_id))

\* the rows behind member_of: group 1 and perhaps group 2, each of either
\* type; two memberships, each of either user in either group
MemberStores ==
    {[l \in Loaders |->
        CASE l = "groups" -> [i \in gs |-> TypedGroupRow(i, t[i])]
          [] l = "memberships" -> [i \in RowIds |-> MembershipRow(i, u[i], g[i])]
          [] l = "users" -> [i \in RowIds |-> Row(i, "CS", TRUE)]
          [] OTHER -> InitialStore[l]] :
     gs \in {{1}, RowIds}, t \in [RowIds -> RowIds],
     u \in [RowIds -> RowIds], g \in [RowIds -> RowIds]}

InitMember ==
    /\ heap = StaticTypes
    /\ inputTypeGQLMapper = InitialMapper
    /\ this = InitialModule
    /\ history = <<>>
    /\ store \in MemberStores
    /\ request = Request("import", <<>>, <<>>, NoneV)

MemberOf ==
    \E u \in DOMAIN store["users"], t \in RowIds :
      Serve("member_of", [self |-> store["users"][u], grouptype_id |-> IdV(t)],
            member_of(Process, store["users"][u], IdV(t)))

NextMember == ImportModule \/ MemberOf

SpecMember == InitMember /\ [][NextMember]_vars

(***************************************************************************)
(* Vocabulary of the properties.                                           *)
(***************************************************************************)
FieldIds(c) == 1..Len(c.ann)
FieldSet(c) == {c.ann[i].field : i \in FieldIds(c)}
\* a declared kind that is a plain class, not a lazy or nested filter reference
IsScalarKind(k) == k.tag = "class"
\* the kind had no operator mapping when the call ran and is no lazy reference
IsUnsupported(c, i) ==
    c.ann[i].type \notin c.cachedBefore /\ c.ann[i].type.tag # "annotated"
\* the operator types createCustomInput built during call c
CustomCreated(c) == {n \in c.created : heap[n].made = "custom"}
\* all operator types createCustomInput ever built
CustomTypes == {n \in 1..Len(heap) : heap[n].made = "custom"}
\* the scalar kind a generated operator type compares against
KindOf(n) == heap[n].annotations["_eq"].of

(***************************************************************************)
(* C1: whenever the same scalar kind is requested for two fields, in one   *)
(* call or in two, both fields receive the identical operator type, and    *)
(* every scalar kind that was requested is registered in                   *)
(* inputTypeGQLMapper.                                                     *)
(***************************************************************************)
C1_CacheSharing ==
    \A x \in CallIds, y \in CallIds :
      \A i \in FieldIds(history[x]), j \in FieldIds(history[y]) :
        LET k == history[x].ann[i].type IN
        IsScalarKind(k) =>
          /\ k \in DOMAIN inputTypeGQLMapper
          /\ k = history[y].ann[j].type =>
               history[x].inputTypes[i] = history[y].inputTypes[j]

(***************************************************************************)
(* C2: createInputs returns the WhereType; its fields are exactly          *)
(* F + {_and, _or}, the AndType's exactly F + {_or}, the OrType's exactly  *)
(* F + {_and}; every field is optional with default None, and each         *)
(* declared field has the same type in all three.                          *)
(***************************************************************************)
C2_FieldSets ==
    \A x \in CallIds :
      LET c == history[x]
          F == FieldSet(c)
          w == heap[c.whereOp.id]
          a == heap[c.andOp.id]
          o == heap[c.orOp.id]
      IN /\ c.returned = c.whereOp
         /\ w.made = "where" /\ a.made = "and" /\ o.made = "or"
         /\ DOMAIN w.annotations = F \cup {"_and", "_or"}
         /\ DOMAIN a.annotations = F \cup {"_or"}
         /\ DOMAIN o.annotations = F \cup {"_and"}
         /\ \A t \in {w, a, o} :
              /\ DOMAIN t.defaults = DOMAIN t.annotations
              /\ \A f \in DOMAIN t.annotations :
                   t.annotations[f].opt /\ t.defaults[f] = "None"
         /\ \A f \in F :
              /\ w.annotations[f] = a.annotations[f]
              /\ w.annotations[f] = o.annotations[f]

\* a class with two fields of different kinds has been synthesized
C2_Witness ==
    \E x \in CallIds :
      /\ Len(history[x].ann) = 2
      /\ history[x].ann[1].type = Class("str")
      /\ history[x].ann[2].type = Class("bool")

RefName(h, t) == IF t.tag = "fwd" THEN t.name ELSE TypeName(h, t)

SameDefinition(h1, t1, h2, t2) ==
    IF t1.tag = "obj" /\ t2.tag = "obj"
    THEN LET a == h1[t1.id]
             b == h2[t2.id]
         IN /\ a.name = b.name
            /\ a.made = b.made
            /\ DOMAIN a.annotations = DOMAIN b.annotations
            /\ \A f \in DOMAIN a.annotations :
                 /\ a.annotations[f].list = b.annotations[f].list
                 /\ RefName(h1, a.annotations[f].of) = RefName(h2, b.annotations[f].of)
    ELSE t1 = t2

(***************************************************************************)
(* C4 as stated: a name of the registry is never silently given to a       *)
(* structurally different definition (the call that would do so fails      *)
(* with DuplicateTypeName instead).                                        *)
(***************************************************************************)
C4_NoSilentReplacement ==
    [][\A n \in DOMAIN this :
         /\ n \in DOMAIN this'
         /\ SameDefinition(heap', this'[n], heap, this[n])]_vars

(***************************************************************************)
(* C5 as stated: when the classes synthesized so far have pairwise         *)
(* distinct names, the WhereType, AndType, OrType and operator types       *)
(* created by those calls have pairwise distinct names.                    *)
(***************************************************************************)
C5_GeneratedNamesDistinct ==
    (\A x \in CallIds, y \in CallIds :
        x # y => history[x].clsname # history[y].clsname)
    => \A x \in CallIds, y \in CallIds :
         \A m \in history[x].created, n \in history[y].created :
           m # n => heap[m].name # heap[n].name

(***************************************************************************)
(* C6 as stated: right after createInputs(E, ...) returns, the registry    *)
(* maps E, E_and and E_or to the WhereType, AndType and OrType of that     *)
(* call, and each operator type the call created is registered under a     *)
(* name determined by its scalar kind alone.                               *)
(***************************************************************************)
C6_RegisteredNames ==
    history # <<>> =>
      LET c == history[Len(history)] IN
      /\ this[c.clsname] = c.whereOp
      /\ this[c.clsname \o "_and"] = c.andOp
      /\ this[c.clsname \o "_or"] = c.orOp
      /\ \A n \in CustomCreated(c) :
           /\ this[heap[n].name] = Obj(n)
           /\ \A m \in CustomTypes :
                KindOf(m) = KindOf(n) => heap[m].name = heap[n].name

(***************************************************************************)
(* The scalar filter types: those inputTypeGQLMapper maps a scalar kind    *)
(* to, and those createCustomInput built for any other kind.               *)
(***************************************************************************)
ScalarFilterTypes ==
    {inputTypeGQLMapper[k].id : k \in {q \in DOMAIN inputTypeGQLMapper : IsScalarKind(q)}}
    \cup CustomTypes

Slots(n) == DOMAIN heap[n].annotations
FilterOf(k) == inputTypeGQLMapper[Class(k)].id

(***************************************************************************)
(* C7 as stated: every scalar filter type exposes at least _eq, _lt, _le,  *)
(* _gt, _ge; the string filter adds exactly _like, _ilike, _startswith,    *)
(* _endswith; the integer and identifier filters add _in.                  *)
(***************************************************************************)
C7_AtLeastFiveSlots ==
    /\ \A n \in ScalarFilterTypes : {"_eq", "_lt", "_le", "_gt", "_ge"} \subseteq Slots(n)
    /\ Slots(FilterOf("str")) \ {"_eq", "_lt", "_le", "_gt", "_ge"}
         = {"_like", "_ilike", "_startswith", "_endswith"}
    /\ "_in" \in Slots(FilterOf("int"))
    /\ "_in" \in Slots(FilterOf("UUID"))

(***************************************************************************)
(* C7 amended: the string, integer and timestamp filters and every         *)
(* generated operator type expose the five comparison slots (the string    *)
(* filter with exactly the four pattern slots more, the integer filter     *)
(* with _in more, the others with nothing more); the boolean filter        *)
(* exposes only _eq and the identifier filter only _eq and _in; every      *)
(* slot is optional with default None.                                     *)
(***************************************************************************)
C7_OperatorSlots ==
    /\ Slots(FilterOf("str")) =
         {"_eq", "_lt", "_le", "_gt", "_ge", "_like", "_ilike", "_startswith", "_endswith"}
    /\ Slots(FilterOf("int")) = {"_eq", "_lt", "_le", "_gt", "_ge", "_in"}
    /\ Slots(FilterOf("datetime")) = {"_eq", "_lt", "_le", "_gt", "_ge"}
    /\ Slots(FilterOf("bool")) = {"_eq"}
    /\ Slots(FilterOf("UUID")) = {"_eq", "_in"}
    /\ \A n \in CustomTypes : Slots(n) = {"_eq", "_lt", "_le", "_gt", "_ge"}
    /\ \A n \in ScalarFilterTypes : \A op \in Slots(n) :
         heap[n].annotations[op].opt /\ heap[n].defaults[op] = "None"

\* an operator type has been generated for a kind without a filter type,
\* beside the five hand-written ones
C7_Witness ==
    /\ CustomTypes # {}
    /\ Cardinality(ScalarFilterTypes) > 5

(***************************************************************************)
(* C8: a field whose kind is a lazy reference keeps that reference         *)
(* unchanged as its type in the WhereType, AndType and OrType; the call    *)
(* builds no operator type for it and inputTypeGQLMapper gets no entry     *)
(* for it.                                                                 *)
(***************************************************************************)
C8_LazyReferenceUsedAsIs ==
    \A x \in CallIds :
      LET c == history[x] IN
      \A i \in FieldIds(c) :
        LET k == c.ann[i].type IN
        k.tag = "annotated" =>
          /\ c.inputTypes[i] = k
          /\ \A t \in {c.whereOp, c.andOp, c.orOp} :
               heap[t.id].annotations[c.ann[i].field] = Optional(k)
          /\ \A n \in CustomCreated(c) :
               KindOf(n) # k /\ heap[n].name # c.clsname \o "_" \o c.ann[i].field
          /\ k \notin DOMAIN inputTypeGQLMapper

\* a class with a lazily referenced filter field has been synthesized
C8_Witness ==
    \E x \in CallIds : \E i \in FieldIds(history[x]) :
      history[x].ann[i].type = Lazy("UserInputWhereFilter")

(***************************************************************************)
(* C9 as stated: no entry of inputTypeGQLMapper is removed or remapped,    *)
(* and a step adds entries only for scalar kinds requested in it, so that  *)
(* a class over kinds already seen adds none.                              *)
(***************************************************************************)
RequestedBy(c) == {c.ann[i].type : i \in FieldIds(c)}

C10_RequestsLeaveTypesUnchanged ==
    [][request'.op # "createInputs" => UNCHANGED typeVars]_vars

\* the schema is published and a page request with a filter has been served
\* after a mutation changed the rows
C10_Witness ==
    /\ Published
    /\ request.op = "group_page"
    /\ request.calls[1].args[3] # NoneV
    /\ store # InitialStore

(***************************************************************************)
(* C11: createInputs on a class with no declared fields does not fail: it  *)
(* returns the WhereType, whose only fields are the lists _and and _or;    *)
(* the AndType holds only _or and the OrType only _and; no operator type   *)
(* is built.                                                               *)
(***************************************************************************)
C11_ZeroFields ==
    \A x \in CallIds :
      LET c == history[x]
          w == heap[c.whereOp.id]
          a == heap[c.andOp.id]
          o == heap[c.orOp.id]
      IN c.ann = <<>> =>
           /\ c.outcome = "returned"
           /\ c.returned = c.whereOp
           /\ w.made = "where" /\ a.made = "and" /\ o.made = "or"
           /\ DOMAIN w.annotations = {"_and", "_or"}
           /\ DOMAIN a.annotations = {"_or"}
           /\ DOMAIN o.annotations = {"_and"}
           /\ \A t \in {w, a, o} : \A f \in DOMAIN t.annotations :
                t.annotations[f].opt /\ t.annotations[f].list
           /\ c.inputTypes = <<>>
           /\ c.created = {c.orOp.id, c.andOp.id, c.whereOp.id}

\* a class without fields has been synthesized
C11_Witness ==
    \E x \in CallIds : history[x].ann = <<>> /\ this[history[x].clsname] = history[x].whereOp

(***************************************************************************)
(* The type an element type denotes: a string names an attribute of the    *)
(* utils module, the namespace the generated classes belong to.            *)
(***************************************************************************)
Resolve(t) ==
    IF t.tag = "fwd"
    THEN IF t.name \in DOMAIN this THEN this[t.name] ELSE NoneV
    ELSE t

(***************************************************************************)
(* C12 as stated: after any sequence of createInputs calls, for every      *)
(* call the element type of its OrType._and, resolved by name, is the      *)
(* AndType of the same call; the element type of its AndType._or is the    *)
(* OrType of the same call; and its WhereType._or and ._and refer to those *)
(* same two types.                                                         *)
(***************************************************************************)
C12_CrossReferences ==
    \A x \in CallIds :
      LET c == history[x]
          w == heap[c.whereOp.id]
          a == heap[c.andOp.id]
          o == heap[c.orOp.id]
      IN /\ Resolve(o.annotations["_and"].of) = c.andOp
         /\ Resolve(a.annotations["_or"].of) = c.orOp
         /\ w.annotations["_or"].of = c.orOp
         /\ w.annotations["_and"].of = c.andOp

(***************************************************************************)
(* Vocabulary of the mutations: the loader behind each mutation and the    *)
(* one record a mutation is given.                                         *)
(***************************************************************************)
UpdateLoaders ==
    [op \in {"group_update", "group_type_update", "user_update", "membership_update",
             "role_category_update"} |->
        CASE op = "group_update" -> "groups"
          [] op = "group_type_update" -> "grouptypes"
          [] op = "user_update" -> "users"
          [] op = "membership_update" -> "memberships"
          [] OTHER -> "rolecategories"]

InsertLoaders ==
    [op \in {"group_insert", "group_type_insert"} |->
        IF op = "group_insert" THEN "groups" ELSE "grouptypes"]

\* the columns of a fresh row of the loader
BlankRow(loader) ==
    IF loader = "groups" THEN GroupRow(0, "", TRUE, NoneV) ELSE Row(0, "", TRUE)

\* the input record of request r, a mutation with a single argument
InputRecord(r) == r.args[CHOOSE a \in DOMAIN r.args : TRUE]

(***************************************************************************)
(* C14: every update mutation calls the loader's update exactly once, with *)
(* the input record, and returns an {id, msg} envelope, never an error:    *)
(* msg is "fail" exactly when the loader answered not-found and "ok"       *)
(* otherwise, and id is the id of the input record.                        *)
(***************************************************************************)
C14_UpdateEnvelope ==
    [][request'.op \in DOMAIN UpdateLoaders =>
         LET loader == UpdateLoaders[request'.op]
             rec == InputRecord(request')
             updatedrow == LoaderUpdate(store[loader], rec).row
         IN /\ request'.calls = <<LoaderCall(loader, "update", <<rec>>)>>
            /\ DOMAIN request'.result = {"id", "msg"}
            /\ request'.result.id = rec["id"]
            /\ request'.result.msg = (IF updatedrow = NoneV THEN "fail" ELSE "ok")]_vars

\* an update of a row that does not exist has been answered
C14_Witness ==
    /\ request.op = "user_update"
    /\ request.args.user["id"].n \notin DOMAIN store["users"]
    /\ request.result = Envelope(request.args.user["id"], "fail")

(***************************************************************************)
(* C15 as stated: group_insert and group_type_insert return an {id, msg}   *)
(* envelope: msg "fail" when the loader's insert gave no row, and msg      *)
(* "ok" with the id of the inserted row otherwise.                         *)
(***************************************************************************)
C15_InsertEnvelope ==
    [][request'.op \in DOMAIN InsertLoaders =>
         LET loader == InsertLoaders[request'.op]
             updatedrow == LoaderInsert(store[loader], InputRecord(request'),
                                        BlankRow(loader)).row
         IN /\ DOMAIN request'.result = {"id", "msg"}
            /\ IF updatedrow = NoneV
               THEN request'.result.msg = "fail"
               ELSE request'.result = Envelope(updatedrow["id"], "ok")]_vars

(***************************************************************************)
(* C16 as stated: whenever group_update_master returns msg "ok", the       *)
(* stored group's mastergroup_id equals master_id.                         *)
(***************************************************************************)
C16_MasterAssigned ==
    (request.op = "group_update_master" /\ request.result.msg = "ok") =>
      store["groups"][request.args.group["id"].n]["mastergroup_id"] = request.args.master_id

(***************************************************************************)
(* C17: group_update_master loads the group first and the master second,   *)
(* and calls the loader's update only after both were found; when either   *)
(* is not found it returns {id: group.id, msg: "fail"} without an update   *)
(* call and leaves the rows unchanged.                                     *)
(***************************************************************************)
C17_LoadsBeforeUpdate ==
    [][request'.op = "group_update_master" =>
         LET gid == request'.args.group["id"]
             mid == request'.args.master_id
             calls == request'.calls
             loadGroup == LoaderCall("groups", "load", <<gid>>)
             loadMaster == LoaderCall("groups", "load", <<mid>>)
             groupFound == LoaderLoad(store["groups"], gid) # NoneV
             masterFound == LoaderLoad(store["groups"], mid) # NoneV
         IN /\ Len(calls) >= 1 /\ calls[1] = loadGroup
            /\ \A i \in 1..Len(calls) :
                 calls[i].method = "update" =>
                   /\ i = 3 /\ calls[2] = loadMaster
                   /\ groupFound /\ masterFound
            /\ ~groupFound =>
                 /\ calls = <<loadGroup>>
                 /\ request'.result = Envelope(gid, "fail")
                 /\ store' = store
            /\ (groupFound /\ ~masterFound) =>
                 /\ calls = <<loadGroup, loadMaster>>
                 /\ request'.result = Envelope(gid, "fail")
                 /\ store' = store]_vars

\* group_update_master has been refused for a master group that does not
\* exist, the group itself existing
C17_Witness ==
    /\ request.op = "group_update_master"
    /\ request.args.group["id"].n \in DOMAIN store["groups"]
    /\ request.args.master_id.n \notin DOMAIN store["groups"]
    /\ Len(request.calls) = 2
    /\ request.result.msg = "fail"

(***************************************************************************)
(* C18: resolve_reference returns None without a loader call when id is    *)
(* None; otherwise it calls load exactly once, with the id (a string id    *)
(* converted to a UUID first), and returns None when nothing is found, or  *)
(* the loaded entity carrying the type definition of the resolving class.  *)
(***************************************************************************)
ResolvingClass ==
    [op \in {"group_by_id", "group_type_by_id", "user_by_id", "role_category_by_id"} |->
        CASE op = "group_by_id" -> [cls |-> "GroupGQLModel", loader |-> "groups"]
          [] op = "group_type_by_id" -> [cls |-> "GroupTypeGQLModel", loader |-> "grouptypes"]
          [] op = "user_by_id" -> [cls |-> "UserGQLModel", loader |-> "users"]
          [] OTHER -> [cls |-> "RoleCategoryGQLModel", loader |-> "rolecategories"]]

C18_ResolveReference ==
    request.op \in DOMAIN ResolvingClass =>
      LET id == request.args.id
          c == ResolvingClass[request.op]
      IN IF id = NoneV
         THEN request.calls = <<>> /\ request.result = NoneV
         ELSE /\ request.calls = <<LoaderCall(c.loader, "load", <<IdV(id.n)>>)>>
              /\ request.result =
                   IF id.n \in DOMAIN store[c.loader]
                   THEN [k |-> "entity", row |-> store[c.loader][id.n],
                         definition |-> c.cls]
                   ELSE NoneV

\* an entity has been resolved from the text form of its id
C18_Witness ==
    /\ request.op = "group_by_id"
    /\ request.args.id = UuidText(1)
    /\ request.result # NoneV
    /\ request.result.definition = "GroupGQLModel"

(***************************************************************************)
(* Vocabulary of the searches by letters.                                  *)
(***************************************************************************)
Searched ==
    [op \in {"group_by_letters", "user_by_letters"} |->
        IF op = "group_by_letters" THEN [loader |-> "groups", column |-> "name"]
                                   ELSE [loader |-> "users", column |-> "fullname"]]

\* the calls of request r that execute a select
Selects(r) == {i \in 1..Len(r.calls) : r.calls[i].method = "execute_select"}

\* the rows of the searched table whose text contains the letters
Matching(r) ==
    LET t == store[Searched[r.op].loader] IN
    RowsOf(t, {i \in DOMAIN t :
                 Like(ColumnText(t[i], Searched[r.op].column),
                      "%" \o r.args.letters \o "%")})

(***************************************************************************)
(* C19: group_by_letters and user_by_letters return an empty list and      *)
(* execute no select when letters has fewer than three characters; with    *)
(* three or more they execute exactly one select, on their own loader,     *)
(* and return what it gives.                                               *)
(***************************************************************************)
C19_AtLeastThreeLetters ==
    request.op \in DOMAIN Searched =>
      IF Len(request.args.letters) < 3
      THEN request.result = <<>> /\ Selects(request) = {}
      ELSE /\ Cardinality(Selects(request)) = 1
           /\ \A i \in Selects(request) :
                /\ request.calls[i].loader = Searched[request.op].loader
                /\ request.result =
                     execute_select(store[request.calls[i].loader],
                                    request.calls[i].args[1])

\* two letters that a group's name contains have been searched for
C19_Witness ==
    /\ request.op = "group_by_letters"
    /\ request.args.letters = "FI"
    /\ \E i \in DOMAIN store["groups"] :
         Like(store["groups"][i]["name"].s, "%FI%")
    /\ request.result = <<>>

(***************************************************************************)
(* C20 as stated: with three or more letters, when validity is given the   *)
(* result holds only entities whose valid flag equals it (validity false   *)
(* gives only invalid entities); when validity is None the result is       *)
(* every entity that matches the letters, valid or not.                    *)
(***************************************************************************)
C20_ValidityFilter ==
    (request.op \in DOMAIN Searched /\ Len(request.args.letters) >= 3) =>
      IF request.args.validity = NoneV
      THEN request.result = Matching(request)
      ELSE \A i \in 1..Len(request.result) :
             request.result[i]["valid"] = request.args.validity

(***************************************************************************)
(* C21 as stated: whatever the rows, member_of(grouptype_id) completes     *)
(* without error and returns exactly the groups of the given type in which *)
(* the user has a membership, also when a membership names a group the     *)
(* loader cannot find.                                                     *)
(***************************************************************************)
C21_MemberOf ==
    request.op = "member_of" =>
      LET groups == store["groups"]
          memberships == store["memberships"]
          self == request.args.self
      IN /\ request.result.k = "list"
         /\ {request.result.elems[i].row : i \in 1..Len(request.result.elems)} =
              {groups[g] : g \in
                 {x \in DOMAIN groups :
                    /\ groups[x]["grouptype_id"] = request.args.grouptype_id
                    /\ \E m \in DOMAIN memberships :
                         /\ memberships[m]["user_id"] = self["id"]
                         /\ memberships[m]["group_id"] = groups[x]["id"]}}

(***************************************************************************)
(* C22: a field whose declared kind is a WhereType that an earlier         *)
(* createInputs call returned is typed as that very WhereType in the       *)
(* WhereType, AndType and OrType, and no operator type is built for it:    *)
(* the earlier call left it in inputTypeGQLMapper mapped to itself.  A     *)
(* class that no call returned and that has no mapping is not taken as a   *)
(* nested filter: it is wrapped in an operator type built in that call.    *)
(***************************************************************************)
C22_NestedWhereTypeUsedAsIs ==
    \A x \in CallIds :
      LET c == history[x] IN
      \A i \in FieldIds(c) :
        LET k == c.ann[i].type
            f == c.ann[i].field
        IN /\ (\E y \in 1..(x - 1) : history[y].returned = k) =>
                /\ k \in c.cachedBefore
                /\ inputTypeGQLMapper[k] = k
                /\ c.inputTypes[i] = k
                /\ \A t \in {c.whereOp, c.andOp, c.orOp} :
                     heap[t.id].annotations[f] = Optional(k)
                /\ \A n \in CustomCreated(c) : KindOf(n) # k
           /\ (k.tag = "class" /\ k \notin c.cachedBefore) =>
                /\ c.inputTypes[i].tag = "obj"
                /\ c.inputTypes[i].id \in CustomCreated(c)
                /\ KindOf(c.inputTypes[i].id) = k

\* a class has been synthesized with a field whose kind is the WhereType
\* of the class synthesized before it
C22_Witness ==
    /\ Len(history) = 2
    /\ \E i \in FieldIds(history[2]) :
         /\ history[2].ann[i].type = history[1].returned
         /\ history[2].inputTypes[i] = history[1].whereOp

(***************************************************************************)
(* Vocabulary of the page resolvers: the loader behind each, and what it   *)
(* means for d to be the dictionary form of a value v: an instance has     *)
(* become a dictionary with the same fields, a list a list of the same     *)
(* length, each part in dictionary form; None and scalars are unchanged.   *)
(***************************************************************************)
PageLoaders ==
    [op \in {"group_page", "group_type_page", "user_page"} |->
        CASE op = "group_page" -> "groups"
          [] op = "group_type_page" -> "grouptypes"
          [] OTHER -> "users"]

RECURSIVE DictFormOf(_, _)
DictFormOf(d, v) ==
    CASE v.k = "inst" ->
           /\ d.k = "dict"
           /\ DOMAIN d.items = DOMAIN v.attrs
           /\ \A f \in DOMAIN v.attrs : DictFormOf(d.items[f], v.attrs[f])
      [] v.k = "list" ->
           /\ d.k = "list"
           /\ Len(d.elems) = Len(v.elems)
           /\ \A i \in 1..Len(v.elems) : DictFormOf(d.elems[i], v.elems[i])
      [] OTHER -> d = v

(***************************************************************************)
(* C23: group_page, group_type_page and user_page call the page method of  *)
(* their loader exactly once, with skip and limit as given and with where  *)
(* None when no filter was given, otherwise the dictionary form of the     *)
(* whole filter value (every field, every _and/_or subtree); they return   *)
(* what the loader gave.                                                   *)
(***************************************************************************)
C23_PagePassThrough ==
    request.op \in DOMAIN PageLoaders =>
      /\ Len(request.calls) = 1
      /\ LET call == request.calls[1]
             a == request.args
         IN /\ call.loader = PageLoaders[request.op]
            /\ call.method = "page"
            /\ Len(call.args) = 3
            /\ call.args[1] = a.skip
            /\ call.args[2] = a.limit
            /\ IF a.where = NoneV THEN call.args[3] = NoneV
                                  ELSE DictFormOf(call.args[3], a.where)
            /\ request.result \in
                 LoaderPage(store[call.loader], call.args[1], call.args[2], call.args[3])

\* a page of users has been served for a filter with an alternative under
\* _or, and the loader gave rows
C23_Witness ==
    /\ request.op = "user_page"
    /\ request.args.where # NoneV
    /\ request.args.where.attrs["_or"] # NoneV
    /\ Len(request.args.where.attrs["_or"].elems) = 1
    /\ Len(request.result) > 0

====
